---- MODULE Spec2Model ----
(***************************************************************************)
(* Model of the sprite-and-component build pipeline of sprite-icon-bundler *)
(* (src/unnamed/part_000): buildSpriteIcons and the stages it sequences.   *)
(*                                                                         *)
(* Strings are sequences of one-character strings, so that startsWith,     *)
(* endsWith, replace, sort and camelcase are computed, not assumed.        *)
(***************************************************************************)
EXTENDS Integers, Sequences, FiniteSets, TLC

\* ------------------------------------------------------------------ strings

LowerLetters == <<"a","b","c","d","e","f","g","h","i","j","k","l","m",
                  "n","o","p","q","r","s","t","u","v","w","x","y","z">>
UpperLetters == <<"A","B","C","D","E","F","G","H","I","J","K","L","M",
                  "N","O","P","Q","R","S","T","U","V","W","X","Y","Z">>
Digits == <<"0","1","2","3","4","5","6","7","8","9">>

Range(s) == { s[i] : i \in DOMAIN s }
IndexIn(s, c) == CHOOSE i \in DOMAIN s : s[i] = c

IsLower(c) == c \in Range(LowerLetters)
IsUpper(c) == c \in Range(UpperLetters)
IsDigit(c) == c \in Range(Digits)
\* SEPARATORS = /[_.\- ]+/ of the camelcase package
IsSeparator(c) == c \in {"_", ".", "-", " "}

ToUpperChar(c) == IF IsLower(c) THEN UpperLetters[IndexIn(LowerLetters, c)] ELSE c
ToLowerChar(c) == IF IsUpper(c) THEN LowerLetters[IndexIn(UpperLetters, c)] ELSE c
ToLowerStr(s) == [i \in DOMAIN s |-> ToLowerChar(s[i])]

\* UTF-16 code unit of a character (the order Array.prototype.sort uses)
CharCode(c) ==
  IF c = " " THEN 32
  ELSE IF c = "-" THEN 45
  ELSE IF c = "." THEN 46
  ELSE IF IsDigit(c) THEN 47 + IndexIn(Digits, c)
  ELSE IF IsUpper(c) THEN 64 + IndexIn(UpperLetters, c)
  ELSE IF c = "_" THEN 95
  ELSE 96 + IndexIn(LowerLetters, c)

Drop(s, n) == SubSeq(s, n + 1, Len(s))
Take(s, n) == SubSeq(s, 1, n)

\* String.prototype.startsWith / endsWith
StartsWith(s, p) == Len(p) <= Len(s) /\ Take(s, Len(p)) = p
EndsWith(s, p) == Len(p) <= Len(s) /\ Drop(s, Len(s) - Len(p)) = p

\* s.replace(p, r) with a string pattern: the FIRST occurrence only
RECURSIVE ReplaceFirst(_, _, _)
ReplaceFirst(s, p, r) ==
  IF Len(s) < Len(p) THEN s
  ELSE IF StartsWith(s, p) THEN r \o Drop(s, Len(p))
  ELSE <<Head(s)>> \o ReplaceFirst(Tail(s), p, r)

\* s.replace(/p$/, r): the occurrence at the end only
ReplaceAtEnd(s, p, r) ==
  IF EndsWith(s, p) THEN Take(s, Len(s) - Len(p)) \o r ELSE s

\* lexicographic order by code unit: a < b
RECURSIVE StrLess(_, _)
StrLess(a, b) ==
  IF b = <<>> THEN FALSE
  ELSE IF a = <<>> THEN TRUE
  ELSE IF CharCode(Head(a)) # CharCode(Head(b)) THEN CharCode(Head(a)) < CharCode(Head(b))
  ELSE StrLess(Tail(a), Tail(b))

\* ---------------------------------------------------------------- camelcase
\* camelcase(input, {pascalCase: true}) as the package computes it.

RECURSIVE TrimLeft(_)
TrimLeft(s) == IF s # <<>> /\ Head(s) = " " THEN TrimLeft(Tail(s)) ELSE s
RECURSIVE TrimRight(_)
TrimRight(s) ==
  IF s # <<>> /\ s[Len(s)] = " " THEN TrimRight(Take(s, Len(s) - 1)) ELSE s
Trim(s) == TrimRight(TrimLeft(s))

\* preserveCamelCase: put a "-" at each lower-to-upper boundary, and before the
\* last capital of a run of capitals that a lower-case letter follows, unless
\* the character three places back is a "-".  i is the 1-based loop index.
RECURSIVE PreserveCamelCase(_, _, _, _, _)
PreserveCamelCase(s, i, lastLower, lastUpper, lastLastUpper) ==
  IF i > Len(s) THEN s
  ELSE
    LET ch == s[i]
        preserved == IF i - 1 > 2 THEN s[i - 3] = "-" ELSE TRUE
    IN IF lastLower /\ IsUpper(ch)
       THEN PreserveCamelCase(Take(s, i - 1) \o <<"-">> \o Drop(s, i - 1),
                              i + 2, FALSE, TRUE, lastUpper)
       ELSE IF lastUpper /\ lastLastUpper /\ IsLower(ch) /\ ~preserved
       THEN PreserveCamelCase(Take(s, i - 2) \o <<"-">> \o Drop(s, i - 2),
                              i + 1, TRUE, FALSE, lastUpper)
       ELSE PreserveCamelCase(s, i + 1, IsLower(ch), IsUpper(ch), lastUpper)

RECURSIVE StripLeadingSeparators(_)
StripLeadingSeparators(s) ==
  IF s # <<>> /\ IsSeparator(Head(s)) THEN StripLeadingSeparators(Tail(s)) ELSE s

\* input.replace(/[_.\- ]+([\p{Alpha}\p{N}_]|$)/gu, (_, id) => toUpperCase(id))
RECURSIVE UpperAfterSeparators(_)
UpperAfterSeparators(s) ==
  IF s = <<>> THEN <<>>
  ELSE IF IsSeparator(Head(s))
  THEN LET rest == StripLeadingSeparators(s)
       IN IF rest = <<>> THEN <<>>
          ELSE <<ToUpperChar(Head(rest))>> \o UpperAfterSeparators(Tail(rest))
  ELSE <<Head(s)>> \o UpperAfterSeparators(Tail(s))

RECURSIVE LeadingDigits(_)
LeadingDigits(s) ==
  IF s # <<>> /\ IsDigit(Head(s)) THEN <<Head(s)>> \o LeadingDigits(Tail(s)) ELSE <<>>

\* input.replace(/\d+([\p{Alpha}\p{N}_]|$)/gu, m => toUpperCase(m))
RECURSIVE UpperAfterDigits(_)
UpperAfterDigits(s) ==
  IF s = <<>> THEN <<>>
  ELSE IF IsDigit(Head(s))
  THEN LET ds == LeadingDigits(s)
           rest == Drop(s, Len(ds))
       IN IF rest = <<>> THEN ds
          ELSE ds \o <<ToUpperChar(Head(rest))>> \o UpperAfterDigits(Tail(rest))
  ELSE <<Head(s)>> \o UpperAfterDigits(Tail(s))

PostProcess(s) == UpperAfterDigits(UpperAfterSeparators(s))

PascalCase(input) ==
  LET t == Trim(input)
  IN IF Len(t) = 0 THEN <<>>
     ELSE IF Len(t) = 1
     THEN (IF IsSeparator(t[1]) THEN <<>> ELSE <<ToUpperChar(t[1])>>)
     ELSE
       LET hasUpperCase == t # ToLowerStr(t)
           p == IF hasUpperCase THEN PreserveCamelCase(t, 1, FALSE, FALSE, FALSE) ELSE t
           l == ToLowerStr(StripLeadingSeparators(p))
           c == IF l = <<>> THEN l ELSE <<ToUpperChar(Head(l))>> \o Tail(l)
       IN PostProcess(c)

\* -------------------------------------------------------------- file names

SvgExt == <<".", "s", "v", "g">>
TsxExt == <<".", "t", "s", "x">>
IconSuffix == <<"I", "c", "o", "n">>
AggregateName == <<"I", "c", "o", "n">>
IndexFile == <<"i", "n", "d", "e", "x", ".", "t", "s">>
DefaultSpriteName == <<"s", "p", "r", "i", "t", "e", "-", "i", "c", "o", "n", "s">>

\* every ordering of a directory's entries that fs.readdir may return
Listings(S) ==
  { l \in [1..Cardinality(S) -> S] : \A x \in S : \E i \in DOMAIN l : l[i] = x }

\* files.filter((file) => file.endsWith('.svg'))
FilterSvg(listing) == SelectSeq(listing, LAMBDA f : EndsWith(f, SvgExt))

\* Array.prototype.sort(): ascending by UTF-16 code units
RECURSIVE InsertSorted(_, _)
InsertSorted(x, s) ==
  IF s = <<>> THEN <<x>>
  ELSE IF StrLess(x, Head(s)) THEN <<x>> \o s
  ELSE <<Head(s)>> \o InsertSorted(x, Tail(s))
RECURSIVE SortFiles(_)
SortFiles(s) == IF s = <<>> THEN <<>> ELSE InsertSorted(Head(s), SortFiles(Tail(s)))

\* ------------------------------------------------------------------ getIcons

\* the component name getIcons derives from a file name
ComponentName(file) == PascalCase(ReplaceAtEnd(file, SvgExt, <<>>)) \o IconSuffix

\* getSvgIconContent: the markup of one component, a <use> of
\* {spriteFileName}.svg#{id}
GetSvgIconContent(id, spriteFileName) == [sprite |-> spriteFileName, fragment |-> id]

\* getIcons: one IconData per .svg entry, in the order readdir listed them
GetIcons(listing, spriteFileName) ==
  LET files == FilterSvg(listing)
  IN [i \in DOMAIN files |->
        [componentName |-> ComponentName(files[i]),
         svg |-> GetSvgIconContent(ComponentName(files[i]), spriteFileName)]]

\* ------------------------------------------------------------ buildSpriteSVG

\* camelcase(file.replace('.svg', suffix), {pascalCase: true})
SymbolId(file, suffix) == PascalCase(ReplaceFirst(file, SvgExt, suffix))

\* A valid source document is <svg ATTRS>BODY</svg>; its content is modelled by
\* the viewBox attribute (0 when absent) and the body markup.  The rewrite
\* renames the root to <symbol id=.. viewBox=..> and keeps the body.
ToSymbol(file, content, suffix) ==
  [id |-> SymbolId(file, suffix), viewBox |-> content.viewBox, body |-> content.body]

\* svgFiles as they would be without the .sort(): in readdir order
SvgFilesUnsorted(listing) == FilterSvg(listing)

\* files.filter((file) => file.endsWith('.svg')).sort()
SvgFiles(listing) == SortFiles(FilterSvg(listing))

\* the <defs> of the sprite document: the symbols in svgFiles order
SpriteSymbols(listing, dir, suffix) ==
  LET svgFiles == SvgFiles(listing)
  IN [i \in DOMAIN svgFiles |-> ToSymbol(svgFiles[i], dir[svgFiles[i]], suffix)]

\* crypto.createHash('md5').update(sprite).digest('hex').slice(0, 8): a
\* deterministic digest of the document text, 8 hex digits wide.  MD5 itself is
\* abstracted by a positional digest of two 16-bit words over the same text.
HashWord == 65536
Mix(h, x) ==
  [hi |-> (h.hi * 17 + h.lo + x) % HashWord, lo |-> (h.lo * 31 + x) % HashWord]
RECURSIVE DigestChars(_, _)
DigestChars(h, s) == IF s = <<>> THEN h ELSE DigestChars(Mix(h, CharCode(Head(s))), Tail(s))
DigestSymbol(h, sym) == Mix(Mix(DigestChars(Mix(h, 60), sym.id), sym.viewBox), sym.body)
RECURSIVE DigestDoc(_, _)
DigestDoc(h, symbols) ==
  IF symbols = <<>> THEN h ELSE DigestDoc(DigestSymbol(h, Head(symbols)), Tail(symbols))
HexDigits == <<"0","1","2","3","4","5","6","7","8","9","a","b","c","d","e","f">>
RECURSIVE Hex(_, _)
Hex(n, width) ==
  IF width = 0 THEN <<>> ELSE Hex(n \div 16, width - 1) \o <<HexDigits[(n % 16) + 1]>>
Hash8(symbols) ==
  LET d == DigestDoc([hi |-> 7, lo |-> 7], symbols) IN Hex(d.hi, 4) \o Hex(d.lo, 4)

\* the base name the sprite is written under
SpriteBaseName(cfg) ==
  IF cfg.spriteName.defined /\ cfg.spriteName.value # <<>>
  THEN cfg.spriteName.value ELSE DefaultSpriteName

SpriteFileName(cfg, symbols) ==
  IF cfg.hashSuffix THEN SpriteBaseName(cfg) \o <<"-">> \o Hash8(symbols)
  ELSE SpriteBaseName(cfg)

\* ----------------------------------------------- buildIconComponent, exportAll

\* icons.map((icon) => icon.componentName.replace(/Icon$/, ''))
IconNames(icons) ==
  [i \in DOMAIN icons |-> ReplaceAtEnd(icons[i].componentName, IconSuffix, <<>>)]

\* [...icons, { componentName: 'Icon', svg: component }]
WithIconComponent(icons, spriteFileName) ==
  Append(icons, [componentName |-> AggregateName,
                 svg |-> [sprite |-> spriteFileName, names |-> IconNames(icons)]])

\* exportAll: one export line per icon; the aggregate module is re-exported
\* whole, every other module by its default export under its component name
ExportAll(icons) ==
  [i \in DOMAIN icons |->
     IF icons[i].componentName = AggregateName
     THEN [kind |-> "star", name |-> AggregateName, from |-> AggregateName]
     ELSE [kind |-> "default", name |-> icons[i].componentName,
           from |-> icons[i].componentName]]

\* ---------------------------------------------------------------- the build

\* bounds of the model
MaxBuilds == 2
MaxStemPieces == 2
MaxFiles == 2

Cwd == "cwd"
DistPath == "dist"
Dirs == {Cwd, "sprites1", "sprites2", DistPath}

\* Config.output: spritePath (a path or a list of paths), spriteName
\* (optional), hashSuffix
SpritePaths ==
  { [isArray |-> FALSE, dirs |-> <<"sprites1">>],
    [isArray |-> TRUE, dirs |-> <<"sprites1", "sprites2">>] }
SpriteNames ==
  { [defined |-> FALSE, value |-> <<>>],
    [defined |-> TRUE, value |-> <<>>],
    [defined |-> TRUE, value |-> <<"s", "p">>] }
Configs ==
  [spritePath : SpritePaths, spriteName : SpriteNames, hashSuffix : BOOLEAN]

\* contents of source files: viewBox (0: none) and body
Contents == { [viewBox |-> 24, body |-> 1], [viewBox |-> 0, body |-> 2] }
PlainContent == [viewBox |-> 24, body |-> 1]

HomeSvg == <<"h", "o", "m", "e", ".", "s", "v", "g">>
MenuSvg == <<"m", "e", "n", "u", ".", "s", "v", "g">>
NotesTxt == <<"n", "o", "t", "e", "s", ".", "t", "x", "t">>
LogoPng == <<"l", "o", "g", "o", ".", "p", "n", "g">>

\* the input directories of the pipeline runs: notes.txt, and any of home.svg
\* (either content) and menu.svg
PipelineDirs ==
  { d \in UNION { [S \cup {NotesTxt} -> Contents] : S \in SUBSET {HomeSvg, MenuSvg} } :
      /\ d[NotesTxt] = PlainContent
      /\ MenuSvg \in DOMAIN d => d[MenuSvg] = PlainContent }

VARIABLES
  config,             \* the BuildConfig, read-only after resolution
  input,              \* the input directory: file name -> content
  fs,                 \* output side of the filesystem: dir -> [exists, files]
  pc,                 \* where buildSpriteIcons stands
  buildNo,            \* number of the current (or last) build
  symbols,            \* <defs> of the sprite document last assembled
  spriteFileName,     \* result of buildSpriteSVG
  spritePending,      \* sprite copies whose ensureWrite has not settled
  icons,              \* result of getIcons
  tasks,              \* per-icon callbacks awaiting transform.react
  pendingWrites,      \* per-icon ensureWrite promises that have not settled
  iconsWithComponent, \* result of buildIconComponent
  barrel,             \* content of index.ts
  ran,                \* emitters the running build has started
  log,                \* component names console.log has printed since the build began
  failedWrites,       \* files whose write, issued by the running build, rejected
  failedTransforms,   \* transforms of the running build that rejected
  spriteRuns          \* every run of buildSpriteSVG: input and file name

vars == <<config, input, fs, pc, buildNo, symbols, spriteFileName, spritePending,
          icons, tasks, pendingWrites, iconsWithComponent, barrel, ran, log,
          failedWrites, failedTransforms, spriteRuns>>

InitCommon ==
  /\ pc = "idle"
  /\ buildNo = 0
  /\ symbols = <<>>
  /\ spriteFileName = <<>>
  /\ spritePending = {}
  /\ icons = <<>>
  /\ tasks = {}
  /\ pendingWrites = {}
  /\ iconsWithComponent = <<>>
  /\ barrel = <<>>
  /\ ran = {}
  /\ log = {}
  /\ failedWrites = {}
  /\ failedTransforms = {}
  /\ spriteRuns = {}

\* Before the first build: no component directory, the second sprite directory
\* missing, the first one missing or holding an unrelated file.
Init ==
  /\ config \in Configs
  /\ input \in PipelineDirs
  /\ \E s1 \in { [exists |-> FALSE, files |-> {}], [exists |-> TRUE, files |-> {LogoPng}] } :
       fs = [d \in Dirs |->
               IF d = Cwd THEN [exists |-> TRUE, files |-> {}]
               ELSE IF d = "sprites1" THEN s1
               ELSE [exists |-> FALSE, files |-> {}]]
  /\ InitCommon

\* ensureWrite(path, content): make sure the directory exists, then write
EnsureWrite(f, dir, file) ==
  [f EXCEPT ![dir] = [exists |-> TRUE, files |-> @.files \cup {file}]]

Idle == pc \in {"idle", "done", "rejected"}

\* the icons directory is edited between two builds
EditInput ==
  /\ Idle /\ buildNo < MaxBuilds
  /\ input' \in PipelineDirs \ {input}
  /\ UNCHANGED <<config, fs, pc, buildNo, symbols, spriteFileName, spritePending,
                 icons, tasks, pendingWrites, iconsWithComponent, barrel, ran, log,
                 failedWrites, failedTransforms, spriteRuns>>

\* buildSpriteIcons(config) is called: a new invocation with fresh locals; it
\* runs up to the first await of cleanupOldSpriteFiles
StartBuild ==
  /\ Idle /\ buildNo < MaxBuilds
  /\ buildNo' = buildNo + 1
  /\ pc' = "cleanSprites"
  /\ spriteFileName' = <<>>
  /\ icons' = <<>>
  /\ iconsWithComponent' = <<>>
  /\ ran' = {}
  /\ log' = {}
  /\ failedWrites' = {}
  /\ failedTransforms' = {}
  /\ UNCHANGED <<config, input, fs, symbols, spritePending, tasks, pendingWrites,
                 barrel, spriteRuns>>

\* file.startsWith(config.output.spriteName ?? 'sprite-icons')
CleanupPrefix(cfg) ==
  IF cfg.spriteName.defined THEN cfg.spriteName.value ELSE DefaultSpriteName

\* cleanupOldSpriteFiles.  List form: in every directory that exists, each
\* entry with the prefix is removed by its resolved path.  Single form: the
\* entries with the prefix are listed from the sprite directory, and fs.rm is
\* given the bare entry name, which resolves against the working directory:
\* an entry of that name there is removed, a missing one rejects and the
\* rejection is swallowed by the surrounding catch.
CleanedSprites(cfg, f) ==
  LET prefix == CleanupPrefix(cfg)
      spriteFiles(d) == { file \in f[d].files : StartsWith(file, prefix) }
  IN IF cfg.spritePath.isArray
     THEN [d \in Dirs |->
             IF d \in Range(cfg.spritePath.dirs) /\ f[d].exists
             THEN [f[d] EXCEPT !.files = @ \ spriteFiles(d)]
             ELSE f[d]]
     ELSE LET dir == cfg.spritePath.dirs[1]
          IN IF ~f[dir].exists THEN f
             ELSE [f EXCEPT ![Cwd].files = @ \ spriteFiles(dir)]

CleanupOldSpriteFiles ==
  /\ pc = "cleanSprites"
  /\ fs' = CleanedSprites(config, fs)
  /\ pc' = "cleanDist"
  /\ UNCHANGED <<config, input, buildNo, symbols, spriteFileName, spritePending,
                 icons, tasks, pendingWrites, iconsWithComponent, barrel, ran, log,
                 failedWrites, failedTransforms, spriteRuns>>

\* cleanupOldDistFiles: fs.rm(distDir, {recursive: true, force: true}) when the
\* directory exists
CleanedDist(f) ==
  IF f[DistPath].exists THEN [f EXCEPT ![DistPath] = [exists |-> FALSE, files |-> {}]]
  ELSE f

CleanupOldDistFiles ==
  /\ pc = "cleanDist"
  /\ fs' = CleanedDist(fs)
  /\ barrel' = <<>>
  /\ pc' = "sprite"
  /\ UNCHANGED <<config, input, buildNo, symbols, spriteFileName, spritePending,
                 icons, tasks, pendingWrites, iconsWithComponent, ran, log,
                 failedWrites, failedTransforms, spriteRuns>>

\* buildSpriteSVG up to its writes: list, read, assemble, name, and issue one
\* ensureWrite per sprite directory
BuildSpriteSVG ==
  /\ pc = "sprite"
  /\ \E listing \in Listings(DOMAIN input) :
       /\ symbols' = SpriteSymbols(listing, input, IconSuffix)
       /\ spriteFileName' = SpriteFileName(config, symbols')
  /\ spritePending' = spritePending \cup
        { [build |-> buildNo, dir |-> d, file |-> spriteFileName' \o SvgExt] :
            d \in Range(config.spritePath.dirs) }
  /\ spriteRuns' = spriteRuns \cup {[input |-> input, fileName |-> spriteFileName']}
  /\ pc' = "spriteWrite"
  /\ UNCHANGED <<config, input, fs, buildNo, icons, tasks, pendingWrites,
                 iconsWithComponent, barrel, ran, log, failedWrites,
                 failedTransforms>>

\* a readFile of buildSpriteSVG rejects: the Promise.all of the reads rejects
BuildSpriteSVGReadFail ==
  /\ pc = "sprite"
  /\ \E f \in DOMAIN input : EndsWith(f, SvgExt)
  /\ pc' = "rejected"
  /\ UNCHANGED <<config, input, fs, buildNo, symbols, spriteFileName, spritePending,
                 icons, tasks, pendingWrites, iconsWithComponent, barrel, ran, log,
                 failedWrites, failedTransforms, spriteRuns>>

\* one sprite copy is written; when it was the last one of the running build,
\* buildSpriteSVG returns and buildIcons calls getIcons
SpriteWriteOk(w) ==
  /\ w \in spritePending
  /\ fs' = EnsureWrite(fs, w.dir, w.file)
  /\ spritePending' = spritePending \ {w}
  /\ pc' = IF /\ pc = "spriteWrite" /\ w.build = buildNo
              /\ ~\E o \in spritePending' : o.build = buildNo
           THEN "getIcons" ELSE pc
  /\ UNCHANGED <<config, input, buildNo, symbols, spriteFileName, icons, tasks,
                 pendingWrites, iconsWithComponent, barrel, ran, log, failedWrites,
                 failedTransforms, spriteRuns>>

\* one sprite copy fails: the join (or the single await) rejects, the build
\* with it; the other copies are still written
SpriteWriteFail(w) ==
  /\ w \in spritePending
  /\ spritePending' = spritePending \ {w}
  /\ pc' = IF pc = "spriteWrite" /\ w.build = buildNo THEN "rejected" ELSE pc
  /\ failedWrites' = IF w.build = buildNo THEN failedWrites \cup {w.file}
                     ELSE failedWrites
  /\ UNCHANGED <<config, input, fs, buildNo, symbols, spriteFileName, icons, tasks,
                 pendingWrites, iconsWithComponent, barrel, ran, log,
                 failedTransforms, spriteRuns>>

\* buildIcons: getIcons, then one callback per icon, each awaiting its
\* transform; with no icon the join resolves at once and buildIconComponent
\* starts (it issues the write of Icon.tsx and awaits it)
BuildIcons ==
  /\ pc = "getIcons"
  /\ \E listing \in Listings(DOMAIN input) : icons' = GetIcons(listing, spriteFileName)
  /\ tasks' = tasks \cup
        { [build |-> buildNo, idx |-> i, name |-> icons'[i].componentName] :
            i \in DOMAIN icons' }
  /\ IF icons' = <<>>
     THEN pc' = "iconComponent" /\ ran' = ran \cup {"iconComponent"}
     ELSE pc' = "icons" /\ UNCHANGED ran
  /\ UNCHANGED <<config, input, fs, buildNo, symbols, spriteFileName, spritePending,
                 pendingWrites, iconsWithComponent, barrel, log, failedWrites,
                 failedTransforms, spriteRuns>>

\* The callback of buildIcons after transform.react has resolved: ensureWrite
\* is called and its promise is returned inside an array literal.  An async
\* function resolves with that array as it is (a promise held in an array is
\* not awaited, and flatMap flattens nothing of the promise the callback
\* returns), so the callback is settled here, with the write still in flight.
CallbackSettled(t) ==
  /\ tasks' = tasks \ {t}
  /\ pendingWrites' = pendingWrites \cup
        {[build |-> t.build, idx |-> t.idx, file |-> t.name \o TsxExt]}

\* transform.react resolves for one icon.  When its callback was the last one
\* of the running build, Promise.all resolves, buildIcons returns and
\* buildIconComponent starts.
TransformOk(t) ==
  /\ t \in tasks
  /\ CallbackSettled(t)
  /\ IF /\ pc = "icons" /\ t.build = buildNo
        /\ ~\E o \in tasks' : o.build = buildNo
     THEN pc' = "iconComponent" /\ ran' = ran \cup {"iconComponent"}
     ELSE UNCHANGED <<pc, ran>>
  /\ UNCHANGED <<config, input, fs, buildNo, symbols, spriteFileName, spritePending,
                 icons, iconsWithComponent, barrel, log, failedWrites,
                 failedTransforms, spriteRuns>>

\* the catch as it would be without its rethrow: the name is logged, the
\* callback resolves and the join never sees the failure
TransformSwallowed(t) ==
  /\ log' = log \cup {t.name}
  /\ pc' = IF /\ pc = "icons" /\ t.build = buildNo
              /\ ~\E o \in tasks' : o.build = buildNo
           THEN "iconComponent" ELSE pc

\* .catch((error) => { console.log(`Error building ${componentName}`); throw error; })
\* the name is logged and the callback rejects: Promise.all rejects at once,
\* buildIcons and the build with it
TransformRejected(t) ==
  /\ log' = log \cup {t.name}
  /\ pc' = IF pc = "icons" /\ t.build = buildNo THEN "rejected" ELSE pc

\* transform.react rejects for one icon; the other callbacks keep running
TransformFail(t) ==
  /\ t \in tasks
  /\ tasks' = tasks \ {t}
  /\ failedTransforms' = IF t.build = buildNo THEN failedTransforms \cup {t.name}
                         ELSE failedTransforms
  /\ TransformRejected(t)
  /\ UNCHANGED <<config, input, fs, buildNo, symbols, spriteFileName, spritePending,
                 icons, pendingWrites, iconsWithComponent, barrel, ran, failedWrites,
                 spriteRuns>>

\* a per-icon ensureWrite completes
IconWriteOk(w) ==
  /\ w \in pendingWrites
  /\ fs' = EnsureWrite(fs, DistPath, w.file)
  /\ pendingWrites' = pendingWrites \ {w}
  /\ UNCHANGED <<config, input, pc, buildNo, symbols, spriteFileName, spritePending,
                 icons, tasks, iconsWithComponent, barrel, ran, log, failedWrites,
                 failedTransforms, spriteRuns>>

\* a per-icon ensureWrite rejects; nothing awaits it
IconWriteFail(w) ==
  /\ w \in pendingWrites
  /\ pendingWrites' = pendingWrites \ {w}
  /\ failedWrites' = IF w.build = buildNo THEN failedWrites \cup {w.file}
                     ELSE failedWrites
  /\ UNCHANGED <<config, input, fs, pc, buildNo, symbols, spriteFileName,
                 spritePending, icons, tasks, iconsWithComponent, barrel, ran, log,
                 failedTransforms, spriteRuns>>

\* Icon.tsx is written: buildIconComponent returns the icons with the
\* aggregate appended, and buildIndex issues the write of index.ts
IconComponentWritten ==
  /\ pc = "iconComponent"
  /\ fs' = EnsureWrite(fs, DistPath, AggregateName \o TsxExt)
  /\ iconsWithComponent' = WithIconComponent(icons, spriteFileName)
  /\ pc' = "index"
  /\ ran' = ran \cup {"index"}
  /\ UNCHANGED <<config, input, buildNo, symbols, spriteFileName, spritePending,
                 icons, tasks, pendingWrites, barrel, log, failedWrites,
                 failedTransforms, spriteRuns>>

\* the write of Icon.tsx rejects
IconComponentWriteFail ==
  /\ pc = "iconComponent"
  /\ pc' = "rejected"
  /\ UNCHANGED <<config, input, fs, buildNo, symbols, spriteFileName, spritePending,
                 icons, tasks, pendingWrites, iconsWithComponent, barrel, ran, log,
                 failedWrites, failedTransforms, spriteRuns>>

\* index.ts is written and buildSpriteIcons resolves
IndexWritten ==
  /\ pc = "index"
  /\ fs' = EnsureWrite(fs, DistPath, IndexFile)
  /\ barrel' = ExportAll(iconsWithComponent)
  /\ pc' = "done"
  /\ UNCHANGED <<config, input, buildNo, symbols, spriteFileName, spritePending,
                 icons, tasks, pendingWrites, iconsWithComponent, ran, log,
                 failedWrites, failedTransforms, spriteRuns>>

\* the write of index.ts rejects
IndexWriteFail ==
  /\ pc = "index"
  /\ pc' = "rejected"
  /\ UNCHANGED <<config, input, fs, buildNo, symbols, spriteFileName, spritePending,
                 icons, tasks, pendingWrites, iconsWithComponent, barrel, ran, log,
                 failedWrites, failedTransforms, spriteRuns>>

\* what the build and its outstanding work do, the input directory untouched
Build ==
  \/ StartBuild
  \/ CleanupOldSpriteFiles
  \/ CleanupOldDistFiles
  \/ BuildSpriteSVG
  \/ BuildSpriteSVGReadFail
  \/ \E w \in spritePending : SpriteWriteOk(w)
  \/ \E w \in spritePending : SpriteWriteFail(w)
  \/ BuildIcons
  \/ \E t \in tasks : TransformOk(t)
  \/ \E t \in tasks : TransformFail(t)
  \/ \E w \in pendingWrites : IconWriteOk(w)
  \/ \E w \in pendingWrites : IconWriteFail(w)
  \/ IconComponentWritten
  \/ IconComponentWriteFail
  \/ IndexWritten
  \/ IndexWriteFail

Next == EditInput \/ Build

\* builds with any configuration, the input edited between them
Spec == Init /\ [][Next]_vars

\* Rebuilds of an unchanged input directory with content hashing on
InitRebuild ==
  /\ config \in { c \in Configs : c.hashSuffix /\ ~c.spriteName.defined }
  /\ input \in PipelineDirs
  /\ fs = [d \in Dirs |->
             IF d = Cwd THEN [exists |-> TRUE, files |-> {}]
             ELSE [exists |-> FALSE, files |-> {}]]
  /\ InitCommon

SpecRebuild == InitRebuild /\ [][Build]_vars

\* ------------------------------------------------- the naming functions alone

\* file-name stems: up to MaxStemPieces pieces, among them a capital, a digit,
\* a separator and the text ".svg" itself
Pieces == { <<"a">>, <<"B">>, <<"2">>, <<"-">>, SvgExt }
RECURSIVE Stems(_)
Stems(n) ==
  IF n = 0 THEN {<<>>}
  ELSE LET p == Stems(n - 1) IN p \cup { st \o q : st \in p, q \in Pieces }
NameFiles == { st \o SvgExt : st \in Stems(MaxStemPieces) } \cup {NotesTxt}
RECURSIVE FileSets(_)
FileSets(n) ==
  IF n = 0 THEN {{}}
  ELSE LET p == FileSets(n - 1) IN p \cup { S \cup {f} : S \in p, f \in NameFiles }
NameDirs == { [f \in S |-> PlainContent] : S \in FileSets(MaxFiles) }

InitNames ==
  /\ config = [spritePath |-> [isArray |-> FALSE, dirs |-> <<"sprites1">>],
               spriteName |-> [defined |-> FALSE, value |-> <<>>],
               hashSuffix |-> TRUE]
  /\ input \in NameDirs
  /\ fs = [d \in Dirs |->
             IF d = Cwd THEN [exists |-> TRUE, files |-> {}]
             ELSE [exists |-> FALSE, files |-> {}]]
  /\ InitCommon

\* buildSpriteSVG's document and file name, for one listing of the directory
ApplySpriteSymbols ==
  /\ pc = "idle"
  /\ \E listing \in Listings(DOMAIN input) :
       /\ symbols' = SpriteSymbols(listing, input, IconSuffix)
       /\ spriteFileName' = SpriteFileName(config, symbols')
  /\ pc' = "named"
  /\ UNCHANGED <<config, input, fs, buildNo, spritePending, icons, tasks,
                 pendingWrites, iconsWithComponent, barrel, ran, log, failedWrites,
                 failedTransforms, spriteRuns>>

\* getIcons, for one listing of the directory
ApplyGetIcons ==
  /\ pc = "named"
  /\ \E listing \in Listings(DOMAIN input) : icons' = GetIcons(listing, spriteFileName)
  /\ pc' = "listed"
  /\ UNCHANGED <<config, input, fs, buildNo, symbols, spriteFileName, spritePending,
                 tasks, pendingWrites, iconsWithComponent, barrel, ran, log,
                 failedWrites, failedTransforms, spriteRuns>>

\* buildIconComponent's result and the text buildIndex writes
ApplyExportAll ==
  /\ pc = "listed"
  /\ iconsWithComponent' = WithIconComponent(icons, spriteFileName)
  /\ barrel' = ExportAll(iconsWithComponent')
  /\ pc' = "exported"
  /\ UNCHANGED <<config, input, fs, buildNo, symbols, spriteFileName, spritePending,
                 icons, tasks, pendingWrites, ran, log, failedWrites,
                 failedTransforms, spriteRuns>>

NextNames == ApplySpriteSymbols \/ ApplyGetIcons \/ ApplyExportAll

SpecNames == InitNames /\ [][NextNames]_vars

\* --------------------------------------------------------------- the claims

SvgInputs == { f \in DOMAIN input : EndsWith(f, SvgExt) }
OwnPendingWrites == { w \in pendingWrites : w.build = buildNo }

\* C1: the aggregate emitter and the index emitter never start, and the build
\* never reports completion, while a per-icon write issued by buildIcons of
\* this build is still pending.
C1_NoStageBeforeIconWrites ==
  pc \in {"iconComponent", "index", "done"} => OwnPendingWrites = {}

\* C2: any read, transform or write failure inside a fanned-out batch aborts
\* the build: once a per-icon write, a sprite copy or a transform of the build
\* has failed, the build is rejected and never completes.
C2_AnyFailureAborts ==
  (failedWrites # {} \/ failedTransforms # {}) => pc = "rejected"

\* C3: when cleanupOldSpriteFiles has run, no file whose name starts with the
\* sprite base name is left in any existing sprite directory, for both forms
\* of spritePath.
C3_CleanupRemovesEverySprite ==
  [][CleanupOldSpriteFiles =>
       \A d \in Range(config.spritePath.dirs) :
         \A file \in fs'[d].files : ~StartsWith(file, SpriteBaseName(config))]_vars

\* C4: the sprite document holds exactly one symbol per input .svg file, and
\* the symbol ids are pairwise distinct.
C4_OneSymbolPerFileDistinctIds ==
  pc \in {"named", "listed", "exported"} =>
    /\ Len(symbols) = Cardinality(SvgInputs)
    /\ \A i, j \in DOMAIN symbols : i # j => symbols[i].id # symbols[j].id

\* C5: for every input file name ending in .svg the symbol id in the sprite
\* equals the componentName of getIcons, so the fragment every per-icon
\* component refers to is the id of a symbol of the sprite.
C5_SymbolIdIsComponentName ==
  pc \in {"listed", "exported"} =>
    /\ \A f \in SvgInputs : SymbolId(f, IconSuffix) = ComponentName(f)
    /\ \A i \in DOMAIN icons :
         \E j \in DOMAIN symbols : symbols[j].id = icons[i].svg.fragment

\* C6: the names the barrel file exports are the componentName of every input
\* icon and the aggregate Icon module, no export line twice, no icon left out.
C6_BarrelExportsEachNameOnce ==
  pc = "exported" =>
    /\ { barrel[i].name : i \in DOMAIN barrel } =
         { ComponentName(f) : f \in SvgInputs } \cup {AggregateName}
    /\ Len(barrel) = Cardinality(SvgInputs) + 1
    /\ \A i, j \in DOMAIN barrel : i # j => barrel[i] # barrel[j]

\* C7: if the transform fails for an icon of the build, its component name is
\* logged, the build is rejected, and neither buildIconComponent nor
\* buildIndex has run in that build.
C7_TransformFailureAborts ==
  failedTransforms # {} =>
    /\ failedTransforms \subseteq log
    /\ pc = "rejected"
    /\ ran = {}

\* a transform of the build has failed while another icon's callback went on
\* to issue its write
C7_Witness ==
  /\ failedTransforms # {}
  /\ pc = "rejected"
  /\ OwnPendingWrites # {}

\* C8: with content hashing on, runs of buildSpriteSVG over the same input
\* files with the same contents give the same sprite file name, whatever order
\* readdir lists the files in.
C8_SameInputSameSpriteName ==
  \A r1, r2 \in spriteRuns : r1.input = r2.input => r1.fileName = r2.fileName

\* the second build has named its sprite over an input of two .svg files
C8_Witness ==
  /\ config.hashSuffix
  /\ buildNo = 2
  /\ pc = "spriteWrite"
  /\ Len(symbols) = 2
  /\ \E r \in spriteRuns : r.input = input /\ r.fileName = spriteFileName

\* C9: cleanupOldSpriteFiles leaves every file of a sprite directory whose name
\* does not start with the base name the build writes its sprite under, for
\* every spriteName, the empty string included.
C9_CleanupKeepsOtherFiles ==
  [][CleanupOldSpriteFiles =>
       \A d \in Range(config.spritePath.dirs) :
         \A file \in fs[d].files :
           ~StartsWith(file, SpriteBaseName(config)) => file \in fs'[d].files]_vars

\* C10: once the last build has completed and all its writes have finished,
\* the component directory holds exactly {componentName}.tsx for each icon of
\* that build, Icon.tsx and index.ts.
C10_DistHoldsExactlyLastBuild ==
  (pc = "done" /\ OwnPendingWrites = {} /\ failedWrites = {}) =>
    fs[DistPath].files =
      { icons[i].componentName \o TsxExt : i \in DOMAIN icons }
        \cup {AggregateName \o TsxExt, IndexFile}

====
